---- MODULE Spec2Model ----
(***************************************************************************)
(* Model of complete-annotations.py: a one-pass patcher that inserts an    *)
(* "annotations" block into the tool declarations of tool.handler.ts.      *)
(*                                                                         *)
(* Text is modelled as a sequence of lexical tokens, each with its exact   *)
(* width in characters, so that the character windows of the script        *)
(* (1000 / 2000 / 50) keep their real sizes.  A token is a pair            *)
(* <<kind, arg>>; a multi-character token matches a pattern only when it   *)
(* lies wholly inside the slice the script searches.                       *)
(***************************************************************************)
EXTENDS Integers, Sequences, FiniteSets, TLC

\* ------------------------------------------------------------------ bounds
MaxDecls == 2       \* declarations in the input file
MaxRuns == 2        \* invocations of the script on the same file

\* ------------------------------------------------- constants of the script
MarkerWindow == 1000
RequiredWindow == 2000
CommaWindow == 50

\* The head of the script's table (insertion order of the dict literal).
TOOL_ANNOTATIONS ==
  << [tool_name |-> "autotask_test_connection",
      annotation_type |-> "TEST_ANNOTATIONS", title |-> "Test Connection"],
     [tool_name |-> "autotask_search_companies",
      annotation_type |-> "READ_ONLY_ANNOTATIONS", title |-> "Search Companies"],
     [tool_name |-> "autotask_create_company",
      annotation_type |-> "CREATE_ANNOTATIONS", title |-> "Create Company"] >>

NumTools == Len(TOOL_ANNOTATIONS)

\* len() of the string literals of the table.
StrLen(s) ==
  CASE s = "autotask_test_connection" -> 24
    [] s = "autotask_search_companies" -> 25
    [] s = "autotask_create_company" -> 23
    [] s = "TEST_ANNOTATIONS" -> 16
    [] s = "READ_ONLY_ANNOTATIONS" -> 21
    [] s = "CREATE_ANNOTATIONS" -> 18
    [] s = "Test Connection" -> 15
    [] s = "Search Companies" -> 16
    [] s = "Create Company" -> 14

\* ------------------------------------------------------------------ tokens
LBRACE == <<"{", 0>>
RBRACE == <<"}", 0>>
RBRACKET == <<"]", 0>>
COMMA == <<",", 0>>
REQ == <<"required: [", 0>>            \* matches  required:\s*\[
ANN == <<"annotations:", 0>>           \* the marker token
WS(n) == <<"ws", n>>                   \* n whitespace characters
PAD(n) == <<"pad", n>>                 \* n characters of other text
NameTok(tool_name) == <<"name", tool_name>>          \* name: "<tool_name>"
TitleTok(title) == <<"title", title>>                \* title: "<title>"
SpreadTok(annotation_type) == <<"spread", annotation_type>>  \* ...<type>

IsWS(t) == t[1] = "ws"

\* Width of a token in characters.
Width(t) ==
  CASE t[1] = "ws" -> t[2]
    [] t[1] = "pad" -> t[2]
    [] t[1] = "name" -> 8 + StrLen(t[2])
    [] t[1] = "title" -> 9 + StrLen(t[2])
    [] t[1] = "spread" -> 3 + StrLen(t[2])
    [] t[1] = "required: [" -> 11
    [] t[1] = "annotations:" -> 12
    [] OTHER -> 1

RECURSIVE TextLen(_)
\* len(content) in characters.
TextLen(s) == IF s = <<>> THEN 0 ELSE Width(Head(s)) + TextLen(Tail(s))

\* Character offset at which token i of content starts.
Off(content, i) == TextLen(SubSeq(content, 1, i - 1))

Min(S) == CHOOSE x \in S : \A y \in S : x <= y

\* --------------------------------------------------- add_annotation_to_tool
\* re.search(tool_pattern, content): index of the first name token, 0 if none.
FindName(content, tool_name) ==
  LET hits == {i \in 1..Len(content) : content[i] = NameTok(tool_name)}
  IN  IF hits = {} THEN 0 ELSE Min(hits)

\* 'annotations:' in content[tool_start:tool_start + 1000]
HasMarker(content, i) ==
  \E j \in i..Len(content) :
     /\ content[j] = ANN
     /\ Off(content, j) + Width(ANN) <= Off(content, i) + MarkerWindow

\* Faulty variant of FindRequired: the pattern is searched in the whole rest
\* of the text instead of the 2000-character slice.
FindRequiredUnbounded(content, i) ==
  LET closes(r) == {c \in (r + 1)..Len(content) : content[c] = RBRACKET}
      opens == {r \in i..Len(content) : content[r] = REQ /\ closes(r) # {}}
  IN  IF opens = {} THEN 0 ELSE Min(closes(Min(opens)))

\* re.search(required_pattern, content[tool_start:tool_start + 2000]):
\* index of the ']' that ends the leftmost match, 0 if there is no match.
FindRequired(content, i) ==
  LET limit == Off(content, i) + RequiredWindow
      closes(r) == {c \in (r + 1)..Len(content) :
                       content[c] = RBRACKET /\ Off(content, c) + 1 <= limit}
      opens == {r \in i..Len(content) : content[r] = REQ /\ closes(r) # {}}
  IN  IF opens = {} THEN 0 ELSE Min(closes(Min(opens)))

\* Faulty variant of FindCommaBrace: the pattern is searched in the whole rest
\* of the text instead of the 50-character slice.
FindCommaBraceUnbounded(content, c) ==
  LET hits == {m \in (c + 1)..Len(content) :
                 /\ content[m] = COMMA
                 /\ \E b \in (m + 1)..Len(content) :
                       /\ content[b] = RBRACE
                       /\ \A x \in (m + 1)..(b - 1) : IsWS(content[x])}
  IN  IF hits = {} THEN 0 ELSE Min(hits)

\* re.search(r',\s*\}', content[insert_pos:insert_pos + 50]) where insert_pos
\* is just after token c: index of the matched comma, 0 if there is no match.
FindCommaBrace(content, c) ==
  LET limit == Off(content, c) + 1 + CommaWindow
      hits == {m \in (c + 1)..Len(content) :
                 /\ content[m] = COMMA
                 /\ \E b \in (m + 1)..Len(content) :
                       /\ content[b] = RBRACE
                       /\ \A x \in (m + 1)..(b - 1) : IsWS(content[x])
                       /\ Off(content, b) + 1 <= limit}
  IN  IF hits = {} THEN 0 ELSE Min(hits)

\* The f-string annotation_block.
AnnotationBlock(annotation_type, title) ==
  << COMMA, WS(9), ANN, WS(1), LBRACE,
     WS(11), TitleTok(title), COMMA,
     WS(11), SpreadTok(annotation_type), COMMA,
     WS(9), RBRACE >>

\* Faulty variant of Splice: the slice after the block starts one character
\* late, so the character at the insertion offset is lost.
SpliceOverwriting(content, m, block) ==
  SubSeq(content, 1, m) \o block \o SubSeq(content, m + 2, Len(content))

\* content[:actual_insert_pos] + annotation_block + content[actual_insert_pos:]
\* with actual_insert_pos just after token m.
Splice(content, m, block) ==
  SubSeq(content, 1, m) \o block \o SubSeq(content, m + 1, Len(content))

\* Token index after which the block goes, 0 when the entry is skipped.
InsertAfter(content, tool_name) ==
  LET i == FindName(content, tool_name)
  IN  IF i = 0 THEN 0
      ELSE IF HasMarker(content, i) THEN 0
      ELSE LET c == FindRequired(content, i)
           IN  IF c = 0 THEN 0 ELSE FindCommaBrace(content, c)

add_annotation_to_tool(content, tool_name, annotation_type, title) ==
  LET m == InsertAfter(content, tool_name)
  IN  IF m = 0
      THEN [content |-> content, modified |-> FALSE]
      ELSE [content |-> Splice(content, m, AnnotationBlock(annotation_type, title)),
            modified |-> TRUE]

\* ------------------------------------------------------- the target file
\* Surface syntax of tool.handler.ts: a declaration is a brace pair holding a
\* name field and, when present, a required list followed by ',' and '}'.
Shapes == {"ok", "late", "noclose", "noreq", "done", "nested", "nocomma"}
Gaps == {0, 990, 1990}

DeclBody(e, shape) ==
  CASE shape = "ok" -> <<REQ, RBRACKET, COMMA, WS(5)>>
    [] shape = "late" -> <<PAD(990), REQ, RBRACKET, COMMA, WS(5)>>
    [] shape = "noclose" -> <<REQ, COMMA, WS(5)>>
    [] shape = "noreq" -> <<>>
    [] shape = "done" -> <<REQ, RBRACKET, COMMA>>
                           \o AnnotationBlock(e.annotation_type, e.title)
                           \o <<WS(5)>>
    [] shape = "nested" -> <<LBRACE, REQ, RBRACKET, COMMA, WS(7), RBRACE,
                             COMMA, WS(5)>>
    [] shape = "nocomma" -> <<REQ, RBRACKET, WS(5)>>

Decl(e, shape) ==
  <<LBRACE, WS(7), NameTok(e.tool_name), COMMA, WS(7)>>
    \o DeclBody(e, shape) \o <<RBRACE>>

Separator(gap) == <<COMMA, WS(5)>> \o (IF gap = 0 THEN <<>> ELSE <<PAD(gap)>>)

RECURSIVE BuildFile(_, _, _)
\* The file holding the declarations of the tools ks (table indices), in that
\* order, with the given shapes and the given filler after each.
BuildFile(ks, shapes, gaps) ==
  IF ks = <<>> THEN <<>>
  ELSE Decl(TOOL_ANNOTATIONS[Head(ks)], Head(shapes)) \o Separator(Head(gaps))
         \o BuildFile(Tail(ks), Tail(shapes), Tail(gaps))

\* Files with at most MaxDecls declarations, each of a different tool.
InputFiles ==
  UNION { { BuildFile(ks, shapes, gaps) :
              ks \in {q \in [1..n -> 1..NumTools] :
                        \A a, b \in 1..n : a # b => q[a] # q[b]},
              shapes \in [1..n -> Shapes],
              gaps \in {g \in [1..n -> Gaps] : n > 0 => g[n] = 0} } :
          n \in 0..MaxDecls }

\* Path(__file__).parent / "src" / "handlers" / "tool.handler.ts"
handler_path == "src/handlers/tool.handler.ts"
\* handler_path.with_suffix('.ts.backup-annotations')
backup_path == "src/handlers/tool.handler.ts.backup-annotations"

\* -------------------------------------------------------------------- state
VARIABLES
  targetExists,    \* handler_path.exists()
  target,          \* text of tool.handler.ts on disk
  backupExists,    \* the .ts.backup-annotations file exists
  backup,          \* its text
  content,         \* main's working buffer
  idx,             \* position of the loop in TOOL_ANNOTATIONS
  modified_count,
  skipped_count,
  pc,              \* where main is
  exit_status,     \* main's return value, -1 while running
  run,             \* which invocation of the script this is
  pristine,        \* history: the text read at the start of this run
  prevTarget,      \* history: the target text when the previous run ended
  prevModified,    \* history: modified_count when the previous run ended
  backupWrites,    \* history: writes of the backup file in this run
  targetWrites,    \* history: writes of the target file in this run
  inserted,        \* history: <<token index, table index>> of each splice
  lastOutcome,     \* history: what the loop did with the last entry
  stdout           \* the lines printed by this run

vars == <<targetExists, target, backupExists, backup, content, idx,
          modified_count, skipped_count, pc, exit_status, run, pristine,
          prevTarget, prevModified, backupWrites, targetWrites, inserted,
          lastOutcome, stdout>>

files == <<targetExists, target, backupExists, backup>>
history == <<run, prevTarget, prevModified>>

Init ==
  /\ targetExists \in BOOLEAN
  /\ target \in (IF targetExists THEN InputFiles ELSE {<<>>})
  /\ backupExists = FALSE
  /\ backup = <<>>
  /\ content = <<>>
  /\ idx = 1
  /\ modified_count = 0
  /\ skipped_count = 0
  /\ pc = "start"
  /\ exit_status = -1
  /\ run = 1
  /\ pristine = <<>>
  /\ prevTarget = <<>>
  /\ prevModified = 0
  /\ backupWrites = 0
  /\ targetWrites = 0
  /\ inserted = <<>>
  /\ lastOutcome = "none"
  /\ stdout = <<>>

\* --------------------------------------------------------------------- main
\* Faulty variant of MissingFile: the backup is written before the existence
\* check is acted upon.
MissingFileWithBackup ==
  /\ pc = "start"
  /\ ~targetExists
  /\ pc' = "done"
  /\ exit_status' = 1
  /\ backupExists' = TRUE
  /\ backup' = <<>>
  /\ backupWrites' = backupWrites + 1
  /\ UNCHANGED <<targetExists, target, content, idx, modified_count,
                 skipped_count, history, pristine, targetWrites, inserted,
                 lastOutcome>>
  /\ stdout' = Append(stdout, <<"Error: Could not find", handler_path>>)

\* if not handler_path.exists(): print error; return 1
MissingFile ==
  /\ pc = "start"
  /\ ~targetExists
  /\ pc' = "done"
  /\ exit_status' = 1
  /\ UNCHANGED <<files, content, idx, modified_count, skipped_count, history,
                 pristine, backupWrites, targetWrites, inserted, lastOutcome>>
  /\ stdout' = Append(stdout, <<"Error: Could not find", handler_path>>)

\* content = handler_path.read_text()
ReadTarget ==
  /\ pc = "start"
  /\ targetExists
  /\ content' = target
  /\ pristine' = target
  /\ pc' = "backup"
  /\ UNCHANGED <<files, idx, modified_count, skipped_count, exit_status,
                 history, backupWrites, targetWrites, inserted, lastOutcome>>
  /\ stdout' = Append(stdout, <<"Reading", handler_path>>)

\* backup_path.write_text(content); modified_count = 0; skipped_count = 0
WriteBackup ==
  /\ pc = "backup"
  /\ backupExists' = TRUE
  /\ backup' = content
  /\ backupWrites' = backupWrites + 1
  /\ modified_count' = 0
  /\ skipped_count' = 0
  /\ idx' = 1
  /\ pc' = "loop"
  /\ UNCHANGED <<targetExists, target, content, exit_status, history, pristine,
                 targetWrites, inserted, lastOutcome>>
  /\ stdout' = Append(stdout, <<"Created backup at", backup_path>>)

\* The result of add_annotation_to_tool for the entry the loop is at.
Attempt ==
  LET e == TOOL_ANNOTATIONS[idx]
  IN  add_annotation_to_tool(content, e.tool_name, e.annotation_type, e.title)

\* One iteration of the for loop, branch  if modified:
EntryModified ==
  /\ pc = "loop"
  /\ idx <= NumTools
  /\ Attempt.modified
  /\ content' = Attempt.content
  /\ modified_count' = modified_count + 1
  /\ idx' = idx + 1
  /\ inserted' = Append(inserted,
                   <<InsertAfter(content, TOOL_ANNOTATIONS[idx].tool_name), idx>>)
  /\ lastOutcome' = "modified"
  /\ UNCHANGED <<files, skipped_count, pc, exit_status, history, pristine,
                 backupWrites, targetWrites>>
  /\ stdout' = Append(stdout, <<"Added annotations to", TOOL_ANNOTATIONS[idx].tool_name>>)

\* Faulty variant of EntrySkipped: the skip is not counted.
EntrySkippedUncounted ==
  /\ pc = "loop"
  /\ idx <= NumTools
  /\ ~Attempt.modified
  /\ idx' = idx + 1
  /\ lastOutcome' = "skipped"
  /\ UNCHANGED <<files, content, modified_count, skipped_count, pc,
                 exit_status, history, pristine, backupWrites, targetWrites,
                 inserted>>
  /\ stdout' = Append(stdout, <<"Skipped", TOOL_ANNOTATIONS[idx].tool_name>>)

\* One iteration of the for loop, branch  else:
EntrySkipped ==
  /\ pc = "loop"
  /\ idx <= NumTools
  /\ ~Attempt.modified
  /\ skipped_count' = skipped_count + 1
  /\ idx' = idx + 1
  /\ lastOutcome' = "skipped"
  /\ UNCHANGED <<files, content, modified_count, pc, exit_status, history,
                 pristine, backupWrites, targetWrites, inserted>>
  /\ stdout' = Append(stdout, <<"Skipped", TOOL_ANNOTATIONS[idx].tool_name>>)

\* Faulty variant of WriteTarget: the backup is refreshed from the working
\* buffer when the target is written.
WriteTargetAndBackup ==
  /\ pc = "loop"
  /\ idx > NumTools
  /\ modified_count > 0
  /\ target' = content
  /\ targetWrites' = targetWrites + 1
  /\ backup' = content
  /\ backupWrites' = backupWrites + 1
  /\ pc' = "done"
  /\ exit_status' = 0
  /\ UNCHANGED <<targetExists, backupExists, content, idx, modified_count,
                 skipped_count, history, pristine, inserted, lastOutcome>>
  /\ stdout' = stdout \o << <<"Successfully added annotations to", modified_count>>,
                          <<"tools skipped", skipped_count>> >>

\* if modified_count > 0: handler_path.write_text(content); return 0
WriteTarget ==
  /\ pc = "loop"
  /\ idx > NumTools
  /\ modified_count > 0
  /\ target' = content
  /\ targetWrites' = targetWrites + 1
  /\ pc' = "done"
  /\ exit_status' = 0
  /\ UNCHANGED <<targetExists, backupExists, backup, content, idx,
                 modified_count, skipped_count, history, pristine,
                 backupWrites, inserted, lastOutcome>>
  /\ stdout' = stdout \o << <<"Successfully added annotations to", modified_count>>,
                          <<"tools skipped", skipped_count>> >>

\* Faulty variant of NoChanges: the target is written unconditionally.
NoChangesButWrite ==
  /\ pc = "loop"
  /\ idx > NumTools
  /\ modified_count = 0
  /\ target' = content
  /\ targetWrites' = targetWrites + 1
  /\ pc' = "done"
  /\ exit_status' = 0
  /\ UNCHANGED <<targetExists, backupExists, backup, content, idx,
                 modified_count, skipped_count, history, pristine,
                 backupWrites, inserted, lastOutcome>>
  /\ stdout' = Append(stdout, <<"No changes needed", 0>>)

\* else: print("No changes needed"); return 0
NoChanges ==
  /\ pc = "loop"
  /\ idx > NumTools
  /\ modified_count = 0
  /\ pc' = "done"
  /\ exit_status' = 0
  /\ UNCHANGED <<files, content, idx, modified_count, skipped_count, history,
                 pristine, backupWrites, targetWrites, inserted, lastOutcome>>
  /\ stdout' = Append(stdout, <<"No changes needed", 0>>)

\* The script is invoked again on the file the previous run left.
Rerun ==
  /\ pc = "done"
  /\ exit_status = 0
  /\ run < MaxRuns
  /\ run' = run + 1
  /\ prevTarget' = target
  /\ prevModified' = modified_count
  /\ pc' = "start"
  /\ exit_status' = -1
  /\ content' = <<>>
  /\ pristine' = <<>>
  /\ idx' = 1
  /\ modified_count' = 0
  /\ skipped_count' = 0
  /\ backupWrites' = 0
  /\ targetWrites' = 0
  /\ inserted' = <<>>
  /\ lastOutcome' = "none"
  /\ UNCHANGED files
  /\ stdout' = <<>>

Next ==
  \/ MissingFile
  \/ ReadTarget
  \/ WriteBackup
  \/ EntryModified
  \/ EntrySkipped
  \/ WriteTarget
  \/ NoChanges
  \/ Rerun

Spec == Init /\ [][Next]_vars

\* =================================================================== claims
Entry(k) == TOOL_ANNOTATIONS[k]
Block(k) == AnnotationBlock(Entry(k).annotation_type, Entry(k).title)
Running == targetExists /\ pc \in {"loop", "done"}
Finished == targetExists /\ pc = "done"

\* C4: when the target file does not exist main returns 1 after printing an
\* error line that holds the attempted path and, in that run, no backup file
\* is created, no entry is processed and no file is written.
C4_MissingTarget ==
  ~targetExists =>
     /\ pc \in {"start", "done"}
     /\ pc = "done" =>
          /\ exit_status = 1
          /\ stdout = << <<"Error: Could not find", handler_path>> >>
     /\ ~backupExists /\ backupWrites = 0 /\ targetWrites = 0
     /\ target = <<>> /\ content = <<>>
     /\ idx = 1 /\ modified_count = 0 /\ skipped_count = 0
     /\ lastOutcome = "none" /\ inserted = <<>>

C4_Witness ==
  /\ ~targetExists /\ pc = "done" /\ exit_status = 1
  /\ Len(stdout) = 1

\* C5: in a run where the target exists the backup is written exactly once,
\* before the first entry is processed and before any write of the target;
\* it holds the text read at the start of the run and is not written again,
\* whether or not the run modifies anything.
C5_BackupSnapshot ==
  targetExists =>
     /\ pc \in {"start", "backup"} =>
          backupWrites = 0 /\ targetWrites = 0 /\ lastOutcome = "none"
     /\ pc \in {"loop", "done"} =>
          backupWrites = 1 /\ backupExists /\ backup = pristine
     /\ pc = "loop" => targetWrites = 0 /\ target = pristine

C5_Witness ==
  /\ Finished /\ modified_count > 0
  /\ backupWrites = 1 /\ targetWrites = 1
  /\ backup = pristine /\ backup # target

\* C8: when the target exists it is written if and only if modified_count > 0
\* at the end of the loop, at most once, only after every entry has been
\* processed, with the final working buffer as its text; with
\* modified_count = 0 it is left untouched; main returns 0 in both cases.
C8_CommitRule ==
  targetExists =>
     /\ pc # "done" => targetWrites = 0 /\ exit_status = -1
     /\ pc \in {"backup", "loop"} => target = pristine
     /\ pc = "done" =>
          /\ exit_status = 0
          /\ idx = NumTools + 1
          /\ targetWrites = (IF modified_count > 0 THEN 1 ELSE 0)
          /\ modified_count > 0 => target = content
          /\ modified_count = 0 => target = pristine /\ content = pristine

C8_Witness ==
  /\ Finished /\ exit_status = 0
  /\ modified_count > 0 /\ targetWrites = 1
  /\ target = content /\ target # pristine

\* What one iteration of the loop does to the buffer and the counters.
C7_Step ==
  LET name == Entry(idx).tool_name
      i == FindName(content, name)
      c == FindRequired(content, i)
      fails == \/ i = 0
               \/ HasMarker(content, i)
               \/ c = 0
               \/ FindCommaBrace(content, c) = 0
  IN  (pc = "loop" /\ idx <= NumTools) =>
        /\ idx' = idx + 1
        /\ ~fails => /\ content' = Splice(content, FindCommaBrace(content, c),
                                          Block(idx))
                     /\ content' # content
                     /\ modified_count' = modified_count + 1
                     /\ skipped_count' = skipped_count
        /\ fails => /\ content' = content
                    /\ skipped_count' = skipped_count + 1
                    /\ modified_count' = modified_count

\* The counters while and after the loop runs.
C7_Counts ==
  Running => /\ modified_count + skipped_count = idx - 1
             /\ pc = "done" => modified_count + skipped_count = NumTools

\* C7: every processed entry either succeeds (the new buffer becomes the
\* working buffer, modified_count grows by one, skipped_count is unchanged)
\* or fails (name not found, already annotated, or a pattern window miss: the
\* working buffer is unchanged, skipped_count grows by one, modified_count is
\* unchanged); an entry whose name is not in the buffer fails; so the two
\* counters add up to the number of entries processed, and to the table size
\* at the end.
C7_Dichotomy == []C7_Counts /\ [][C7_Step]_vars

C7_Witness ==
  /\ Finished /\ modified_count > 0 /\ skipped_count > 0
  /\ \E k \in 1..NumTools : FindName(pristine, Entry(k).tool_name) = 0
  /\ \E k \in 1..NumTools :
        LET i == FindName(content, Entry(k).tool_name)
        IN  i # 0 /\ ~HasMarker(content, i)

\* The text left when the recorded splices are taken out again, last one
\* first; a text that is not made of tokens when a recorded place does not
\* hold the entry's block.
RECURSIVE WithoutBlocks(_, _)
WithoutBlocks(buf, ins) ==
  IF ins = <<>> THEN buf
  ELSE LET last == ins[Len(ins)]
           m == last[1]
           blk == Block(last[2])
       IN  IF /\ m + Len(blk) <= Len(buf)
              /\ SubSeq(buf, m + 1, m + Len(blk)) = blk
           THEN WithoutBlocks(SubSeq(buf, 1, m)
                                \o SubSeq(buf, m + Len(blk) + 1, Len(buf)),
                              SubSeq(ins, 1, Len(ins) - 1))
           ELSE <<"corrupt">>

RECURSIVE BlocksLen(_)
BlocksLen(ins) ==
  IF ins = <<>> THEN 0
  ELSE TextLen(Block(Head(ins)[2])) + BlocksLen(Tail(ins))

\* C10: at every point of the loop the working buffer is the pristine text
\* with whole annotation blocks inserted and nothing else changed: taking the
\* inserted blocks out gives the pristine text back, and the buffer's length
\* is the pristine length plus the lengths of the blocks of the entries
\* counted in modified_count.
C10_InsertOnly ==
  Running =>
     /\ Len(inserted) = modified_count
     /\ WithoutBlocks(content, inserted) = pristine
     /\ TextLen(content) = TextLen(pristine) + BlocksLen(inserted)
     /\ Len(content) >= Len(pristine)

C10_Witness ==
  /\ Finished /\ modified_count >= 2
  /\ content # pristine
  /\ WithoutBlocks(content, inserted) = pristine

\* The entry's required list: the first 'required: [' at or after token i
\* that lies inside the 2000-character slice; 0 if there is none.
OwnRequired(buf, i) ==
  LET opens == {r \in i..Len(buf) :
                  /\ buf[r] = REQ
                  /\ Off(buf, r) + Width(REQ) <= Off(buf, i) + RequiredWindow}
  IN  IF opens = {} THEN 0 ELSE Min(opens)

\* The entry is found, no marker is in its 1000-character slice, and its
\* required list has no ']' inside the 2000-character slice.
MalformedRequired(buf, tool_name) ==
  LET i == FindName(buf, tool_name)
      r == OwnRequired(buf, i)
  IN  /\ i # 0
      /\ ~HasMarker(buf, i)
      /\ r # 0
      /\ \A c \in (r + 1)..Len(buf) :
            buf[c] = RBRACKET => Off(buf, c) + 1 > Off(buf, i) + RequiredWindow

\* One iteration of the loop on an entry with such a list.
C6_Step ==
  (pc = "loop" /\ idx <= NumTools
     /\ MalformedRequired(content, Entry(idx).tool_name)) =>
    /\ ~Attempt.modified
    /\ Attempt.content = content
    /\ content' = content
    /\ skipped_count' = skipped_count + 1
    /\ modified_count' = modified_count

C1_Idempotent ==
  (targetExists /\ run >= 2) =>
     /\ target = prevTarget
     /\ modified_count = 0
     /\ targetWrites = 0
     /\ pc \in {"loop", "done"} => content = prevTarget /\ skipped_count = idx - 1
     /\ pc = "done" => skipped_count = NumTools

\* A second run has ended on a file in which the first run put an entry's
\* block beyond the marker window of that entry.
C1_Witness ==
  /\ Finished /\ run = 2 /\ prevModified > 0
  /\ \E k \in 1..NumTools :
        LET i == FindName(target, Entry(k).tool_name)
        IN  /\ i # 0
            /\ ~HasMarker(target, i)
            /\ \E j \in i..Len(target) : target[j] = TitleTok(Entry(k).title)

\* ------------------------------------------ declarations, as the claims mean
Max(S) == CHOOSE x \in S : \A y \in S : x >= y
Count(buf, a, b, t) == Cardinality({x \in a..b : buf[x] = t})
Balanced(buf, a, b) == Count(buf, a, b, LBRACE) = Count(buf, a, b, RBRACE)

\* The brace pair that encloses token i: the entry's declaration (0: none).
DeclStart(buf, i) ==
  LET S == {j \in 1..(i - 1) : buf[j] = LBRACE /\ Balanced(buf, j + 1, i - 1)}
  IN  IF S = {} THEN 0 ELSE Max(S)

DeclEnd(buf, i) ==
  LET S == {j \in (i + 1)..Len(buf) :
              buf[j] = RBRACE /\ Balanced(buf, i + 1, j - 1)}
  IN  IF S = {} THEN 0 ELSE Min(S)

\* The declaration of the name at token i holds the marker token.
OwnMarker(buf, i) ==
  \E j \in DeclStart(buf, i)..DeclEnd(buf, i) : buf[j] = ANN

\* Number of annotation blocks in the declaration of the name at token i.
OwnBlocks(buf, i) == Count(buf, DeclStart(buf, i), DeclEnd(buf, i), ANN)

\* The declaration of the name at token i follows the syntax convention: it
\* owns a required list, closed by ']', followed by ',' and the declaration's
\* own '}'.
WellFormed(buf, i) ==
  LET e == DeclEnd(buf, i)
  IN  /\ DeclStart(buf, i) # 0 /\ e # 0
      /\ \E r \in (i + 1)..(e - 1) : \E c \in (r + 1)..(e - 2) :
            /\ buf[r] = REQ /\ buf[c] = RBRACKET
            /\ \A x \in (r + 1)..(c - 1) : buf[x] \notin {RBRACKET, LBRACE, RBRACE}
            /\ buf[c + 1] = COMMA
            /\ \A x \in (c + 2)..(e - 1) : IsWS(buf[x])

\* Well-formed and unannotated declarations of two table entries a and b, a
\* before b with nothing but ',' and whitespace between them.
Adjacent(buf, a, b) ==
  LET i == FindName(buf, Entry(a).tool_name)
      j == FindName(buf, Entry(b).tool_name)
  IN  /\ i # 0 /\ j # 0
      /\ WellFormed(buf, i) /\ WellFormed(buf, j)
      /\ ~OwnMarker(buf, i) /\ ~OwnMarker(buf, j)
      /\ DeclEnd(buf, i) < DeclStart(buf, j)
      /\ \A x \in (DeclEnd(buf, i) + 1)..(DeclStart(buf, j) - 1) :
            buf[x] = COMMA \/ IsWS(buf[x])

\* The block put after token m is in the declaration of the name at token i:
\* right after the ']' of its own required list and that list's comma, at
\* the top level of the declaration, with only whitespace up to the
\* declaration's '}'.
PlacedInOwnDecl(buf, i, m) ==
  LET s == DeclStart(buf, i)
      e == DeclEnd(buf, i)
  IN  /\ s # 0 /\ e # 0 /\ i < m /\ m < e
      /\ Balanced(buf, s + 1, m)
      /\ buf[m] = COMMA /\ buf[m - 1] = RBRACKET
      /\ \E r \in (i + 1)..(m - 2) : buf[r] = REQ
      /\ \A x \in (m + 1)..(e - 1) : IsWS(buf[x])

\* One successful iteration of the loop.
C2_Step ==
  (pc = "loop" /\ idx <= NumTools /\ Attempt.modified) =>
    LET i == FindName(content, Entry(idx).tool_name)
        m == InsertAfter(content, Entry(idx).tool_name)
    IN  /\ content' = Splice(content, m, Block(idx))
        /\ PlacedInOwnDecl(content, i, m)

\* C2: whenever add_annotation_to_tool reports success the new buffer is the
\* old one with exactly one block of the entry inserted, and the block sits
\* right after the entry's own required list, before the closing brace of the
\* entry's own declaration: not in a nested object, not in another entry's
\* declaration.
C2_SplicePlacement == [][C2_Step]_vars

\* C3: with the well-formed, unannotated declarations of two table entries
\* adjacent in the file, each of the two declarations holds exactly one
\* annotation block when the run ends.
C3_AdjacentBothAnnotated ==
  (Finished /\ run = 1) =>
     \A a, b \in 1..NumTools :
        Adjacent(pristine, a, b) =>
           /\ OwnBlocks(content, FindName(content, Entry(a).tool_name)) = 1
           /\ OwnBlocks(content, FindName(content, Entry(b).tool_name)) = 1
           /\ target = content

\* C9: an entry found in the buffer is skipped as already annotated exactly
\* when its own declaration holds the marker token, and a well-formed
\* declaration without a marker of its own is annotated by the run, whatever
\* the order of the table and whatever declaration follows it within 1000
\* characters.
C9_OwnDeclaration ==
  /\ (targetExists /\ pc = "loop" /\ idx <= NumTools) =>
        LET i == FindName(content, Entry(idx).tool_name)
        IN  i # 0 => (HasMarker(content, i) <=> OwnMarker(content, i))
  /\ (Finished /\ run = 1) =>
        \A k \in 1..NumTools :
           LET i == FindName(pristine, Entry(k).tool_name)
           IN  (i # 0 /\ WellFormed(pristine, i) /\ ~OwnMarker(pristine, i)) =>
                  OwnBlocks(content, FindName(content, Entry(k).tool_name)) = 1

====
